---- MODULE Spec2Model ----
(***************************************************************************)
(* Model of the Pebble "Level" application (src/src/level.c): the          *)
(* accelerometer handler with its outlier rejection, the one-pole IIR      *)
(* filter bank, the fixed-point normalisation and tilt angle, the filter   *)
(* menu and the persisted filter strength.                                 *)
(*                                                                         *)
(* C "int" and fix16_t are 32-bit two's-complement integers.  The target   *)
(* compiler (arm gcc) shifts signed values arithmetically, so x >> a is    *)
(* floor(x / 2^a) and x << a is x * 2^a reduced to 32 bits.  Every         *)
(* arithmetic operator below is written so that no intermediate value      *)
(* leaves the 32-bit range of the model checker's own integers.            *)
(***************************************************************************)
EXTENDS Integers, Sequences, FiniteSets, TLC

\* ------------------------------------------------------------------------
\* Bounds of the exploration (not program constants).

\* Number of accelerometer samples delivered in the general specification.
MaxSamples == 3

\* ------------------------------------------------------------------------
\* Program constants.

INT_MAX == 2147483647

INT_MIN == -INT_MAX - 1

\* Per-axis rejection threshold of accel_handler, in raw sensor units.
Threshold == 1200

\* Raw samples are scaled by << 4 before filtering.
RawShift == 4

\* Default value of filter_shift.
DefaultFilterShift == 3

\* libfixmath: 1.0 and pi in Q16.16.
fix16_one == 65536

fix16_pi == 205887

fix16_minimum == INT_MIN

fix16_maximum == INT_MAX

\* fix16_div reports an unrepresentable quotient with this value.
fix16_overflow == INT_MIN

\* Names of the filter presets; the filter menu has one item per name.
STR_Filter_Level == <<"None", "Fast", "Medium", "Slow", "Very Slow">>

\* Variant: a menu with one item more than there are preset names.
FilterMenuIndicesOffByOne == 0..Len(STR_Filter_Level)

\* Indices the filter menu can pass to select_filter: one per menu item,
\* filter_menu_items[COUNT(STR_Filter_Level)].
FilterMenuIndices == 0..(Len(STR_Filter_Level) - 1)

\* The three axes x, y, z (C indices 0, 1, 2).
Axes == 1..3

\* ------------------------------------------------------------------------
\* 32-bit integer arithmetic.  Signed overflow is undefined in C; the target
\* build (arm gcc, no trapping arithmetic) leaves the result reduced to 32
\* bits.  The operators below produce that result and say separately whether
\* the exact result was out of range; accel_handler records every such
\* event in the variable faults, and the overflow properties are stated on
\* faults, never on the wrapped values.

Pow2(n) == 2^n

\* abs() of <stdlib.h> on an int that is not INT_MIN.
abs(v) == IF v < 0 THEN -v ELSE v

\* x >> n on a signed int: arithmetic shift.
Shr(v, n) == v \div Pow2(n)

\* TRUE iff a + b is not representable in 32 bits.
AddOverflows(a, b) == \/ (b > 0 /\ a > INT_MAX - b)
                      \/ (b < 0 /\ a < INT_MIN - b)

\* a + b reduced to 32 bits (two's complement).
AddWrap(a, b) == IF b > 0 /\ a > INT_MAX - b
                   THEN (a - INT_MAX - 1) + (b - INT_MAX - 1)
                 ELSE IF b < 0 /\ a < INT_MIN - b
                   THEN (a + INT_MAX + 1) + (b + INT_MAX + 1)
                 ELSE a + b

\* TRUE iff a - b is not representable in 32 bits.
SubOverflows(a, b) == \/ (b < 0 /\ a > INT_MAX + b)
                      \/ (b > 0 /\ a < INT_MIN + b)

\* a - b reduced to 32 bits.
SubWrap(a, b) == IF b < 0 /\ a > INT_MAX + b
                   THEN (a - INT_MAX - 1) - (b + INT_MAX + 1)
                 ELSE IF b > 0 /\ a < INT_MIN + b
                   THEN (a + INT_MAX + 1) - (b - INT_MAX - 1)
                 ELSE a - b

\* Largest v with v * v <= INT_MAX.
SqrtIntMax == 46340

\* TRUE iff v * v is not representable in 32 bits.
SquareOverflows(v) == v > SqrtIntMax \/ v < -SqrtIntMax

\* The 32-bit value with unsigned halves hi and lo, read as signed.
Compose(hi, lo) == IF hi >= 32768 THEN (hi - 65536) * 65536 + lo
                   ELSE hi * 65536 + lo

\* m * m reduced to 32 bits for 0 <= m < 2^31, from 16- and 8-bit limbs.
SquareLimbs(m) ==
    LET h  == m \div 65536
        l  == m % 65536
        lh == l \div 256
        ll == l % 256
        cross  == Compose(((h * l) % 32768) * 2, 0)
        lowsq  == AddWrap(Compose(lh * lh, 0), 2 * lh * ll * 256 + ll * ll)
    IN  AddWrap(cross, lowsq)

\* v * v reduced to 32 bits.
SquareWrap(v) == IF v = INT_MIN THEN 0
                 ELSE IF SquareOverflows(v) THEN SquareLimbs(abs(v))
                 ELSE v * v

\* ------------------------------------------------------------------------
\* Fixed-point library (libfixmath, Q16.16).  Its source is not part of
\* src/; these operators follow the specification's FixedPointMath section.

\* The upper and lower 16 bits of a 32-bit value read as unsigned.
Hi16(v) == (v \div 65536) % 65536

Lo16(v) == v % 65536

\* Bit pair k (0 = least significant) of the 48-bit radicand u * 2^16, where
\* u is the 32-bit value with halves hi and lo.
BitPair(hi, lo, k) == IF k >= 16 THEN (hi \div Pow2(2 * (k - 16))) % 4
                      ELSE IF k >= 8 THEN (lo \div Pow2(2 * (k - 8))) % 4
                      ELSE 0

\* One digit of the digit-by-digit binary square root: st = <<root so far,
\* remainder>>, extended by bit pair k of the radicand.
SqrtStep(hi, lo, k, st) ==
    LET rem2  == 4 * st[2] + BitPair(hi, lo, k)
        trial == 4 * st[1] + 1
    IN  IF rem2 >= trial THEN <<2 * st[1] + 1, rem2 - trial>>
        ELSE <<2 * st[1], rem2>>

\* The digits from bit pair k down to 0.  (The singleton set binds the next
\* pair to its value before the recursive call.)
RECURSIVE SqrtDigits(_, _, _, _)
SqrtDigits(hi, lo, k, st) ==
    IF k < 0 THEN st[1]
    ELSE CHOOSE r \in {SqrtDigits(hi, lo, k - 1, nx) : nx \in {SqrtStep(hi, lo, k, st)}} : TRUE

\* integer_sqrt of the radicand v * 2^16: the Q16.16 square root of the
\* Q16.16 value v, rounded down.  The result is below 2^24.
fix16_sqrt(v) ==
    CHOOSE r \in {SqrtDigits(h[1], h[2], 23, <<0, 0>>) : h \in {<<Hi16(v), Lo16(v)>>}} : TRUE

\* fix16_from_int(a) is a * fix16_one.
FromIntOverflows(a) == a > 32767 \/ a < -32768

fix16_from_int(a) == IF FromIntOverflows(a)
                       THEN ((((a % 65536) + 32768) % 65536) - 32768) * fix16_one
                       ELSE a * fix16_one

fix16_abs(x) == IF x = INT_MIN THEN INT_MIN ELSE abs(x)

\* One fraction bit of rem / b by long division: st = <<remainder, quotient>>.
FracStep(b, st) ==
    IF st[1] >= b - st[1] THEN <<st[1] - (b - st[1]), 2 * st[2] + 1>>
    ELSE <<2 * st[1], 2 * st[2]>>

\* The k fraction bits still to compute, 0 <= st[1] < b.
RECURSIVE FracBits(_, _, _)
FracBits(b, k, st) ==
    IF k = 0 THEN st[2]
    ELSE CHOOSE q \in {FracBits(b, k - 1, nx) : nx \in {FracStep(b, st)}} : TRUE

\* |a| / bm in Q16.16 for a divisor magnitude 0 < bm <= INT_MAX; a quotient
\* that does not fit is reported as fix16_overflow.
DivMagnitude(a, bm, negative) ==
    LET ip0 == IF a = INT_MIN THEN INT_MAX \div bm ELSE abs(a) \div bm
        rm0 == IF a = INT_MIN THEN (INT_MAX % bm) + 1 ELSE abs(a) % bm
        ip  == IF rm0 = bm THEN ip0 + 1 ELSE ip0
        rm  == IF rm0 = bm THEN 0 ELSE rm0
    IN  IF ip0 > 32767 \/ ip > 32767 THEN fix16_overflow
        ELSE LET q == ip * 65536 + FracBits(bm, 16, <<rm, 0>>)
             IN  IF negative THEN -q ELSE q

\* fix16_div(a, b) for b # 0: the Q16.16 quotient, truncated toward zero.
fix16_div(a, b) ==
    IF b = INT_MIN
      THEN LET q == IF a = INT_MIN THEN 65536 ELSE abs(a) \div 32768
           IN  IF a < 0 THEN q ELSE -q
      ELSE DivMagnitude(a, abs(b), (a < 0) # (b < 0))

\* What fix16_div(a, 0) may leave in its result: the library's saturation
\* values, or the zero a non-trapping hardware divide returns.
DivByZeroResults == {fix16_minimum, fix16_maximum, 0}

\* Arccosine table over [0, 1], in Q16.16 radians, sampled every 1/64 and
\* indexed directly by the scaled input.
AcosTable == <<
    102944, 101920, 100895, 99871, 98845, 97818, 96791, 95761,
    94730, 93697, 92662, 91623, 90583, 89538, 88491, 87439,
    86384, 85324, 84260, 83190, 82115, 81034, 79947, 78853,
    77752, 76643, 75527, 74402, 73268, 72124, 70970, 69806,
    68629, 67440, 66239, 65023, 63792, 62545, 61282, 60000,
    58698, 57376, 56031, 54661, 53265, 51840, 50384, 48893,
    47365, 45796, 44180, 42513, 40788, 38997, 37130, 35176,
    33119, 30938, 28604, 26077, 23293, 20145, 16427, 11600,
    0 >>

\* Width of one table step in Q16.16 units (fix16_one / 64).
AcosStep == 1024

\* fix16_acos: table lookup on [0, 1], mirrored on [-1, 0), clamped outside.
fix16_acos(x) ==
    IF x > fix16_one THEN 0
    ELSE IF x < -fix16_one THEN fix16_pi
    ELSE IF x >= 0 THEN AcosTable[(x \div AcosStep) + 1]
    ELSE fix16_pi - AcosTable[((-x) \div AcosStep) + 1]

\* ------------------------------------------------------------------------
\* Program state.

VARIABLES
    running,           \* the app is between init() and deinit()
    window_stack,      \* windows pushed on the window stack, bottom first
    filter_shift,      \* int filter_shift
    filter_state,      \* int filter_state[3]
    accel_normalized,  \* fix16_t accel_normalized[3]
    accel_raw,         \* accel_raw[3] as the last accepted sample left it
    angle_text,        \* the angle shown in angle_layer, in decidegrees
    subtitle,          \* main_menu_items[1].subtitle
    persist,           \* values stored under KEY_FILTER_SHIFT (none or one)
    data,              \* the AccelData last delivered (none or one)
    updated,           \* the last accel_handler call redrew the display
    faults,            \* arithmetic faults of the last accel_handler call
    last_op,           \* the handler that ran last
    nsamples           \* samples delivered so far (exploration bound)

vars == <<running, window_stack, filter_shift, filter_state, accel_normalized,
          accel_raw, angle_text, subtitle, persist, data, updated, faults,
          last_op, nsamples>>

\* angle_text before the first update: the zero-initialised (empty) buffer.
NoText == -1

Zero3 == <<0, 0, 0>>

\* STR_Filter_Level[i]; an index outside the array reads past its end.
FilterLevelName(i) == IF i + 1 \in DOMAIN STR_Filter_Level
                        THEN STR_Filter_Level[i + 1]
                        ELSE "<out of bounds>"

\* The state of the freshly loaded program image: static initialisers, an
\* empty persistent store, nothing on the window stack.
Init ==
    /\ running = FALSE
    /\ window_stack = <<>>
    /\ filter_shift = DefaultFilterShift
    /\ filter_state = Zero3
    /\ accel_normalized = Zero3
    /\ accel_raw = Zero3
    /\ angle_text = NoText
    /\ subtitle = ""
    /\ persist = {}
    /\ data = <<>>
    /\ updated = FALSE
    /\ faults = {}
    /\ last_op = "load"
    /\ nsamples = 0

\* ------------------------------------------------------------------------
\* filter(): one step of the one-pole IIR filter with shift a.  Yields the
\* new *state, the returned output, and whether the update left int range.

\* Variant: the recurrence as the comment above filter() writes it, with the
\* decayed state divided by 2^a once more.
filter_as_commented(state, input, a) ==
    LET t == Shr(SubWrap(state, Shr(state, a)), a)
        s == AddWrap(t, input)
    IN  [state    |-> s,
         output   |-> Shr(s, a),
         overflow |-> SubOverflows(state, Shr(state, a)) \/ AddOverflows(t, input)]

\* Variant: the decay term added instead of subtracted.
filter_sign_slip(state, input, a) ==
    LET t == AddWrap(state, Shr(state, a))
        s == AddWrap(t, input)
    IN  [state    |-> s,
         output   |-> Shr(s, a),
         overflow |-> AddOverflows(state, Shr(state, a)) \/ AddOverflows(t, input)]

filter(state, input, a) ==
    LET t == SubWrap(state, Shr(state, a))
        s == AddWrap(t, input)
    IN  [state    |-> s,
         output   |-> Shr(s, a),
         overflow |-> SubOverflows(state, Shr(state, a)) \/ AddOverflows(t, input)]

\* ------------------------------------------------------------------------
\* accel_handler().

\* Component i of a sample.
Component(d, i) == IF i = 1 THEN d.x ELSE IF i = 2 THEN d.y ELSE d.z

\* Variant: the acceptance test without the did_vibrate conjunct.
AcceptedWhileVibrating(d) ==
    /\ abs(d.x) < Threshold
    /\ abs(d.y) < Threshold
    /\ abs(d.z) < Threshold

\* Variant: the acceptance test without the z conjunct.
AcceptedIgnoringZ(d) ==
    /\ ~d.did_vibrate
    /\ abs(d.x) < Threshold
    /\ abs(d.y) < Threshold

\* The acceptance test: not vibrating and every axis below the threshold.
Accepted(d) ==
    /\ ~d.did_vibrate
    /\ abs(d.x) < Threshold
    /\ abs(d.y) < Threshold
    /\ abs(d.z) < Threshold

\* accel_raw[] before filtering: each axis << 4.
ScaledSample(d) == [i \in Axes |-> Component(d, i) * Pow2(RawShift)]

\* The loop "magsq += accel_raw[i] * accel_raw[i]" over the three axes.
MagSq(raw) ==
    LET q1 == SquareWrap(raw[1])
        q2 == SquareWrap(raw[2])
        q3 == SquareWrap(raw[3])
        s2 == AddWrap(q1, q2)
        s3 == AddWrap(s2, q3)
    IN  [value    |-> s3,
         overflow |-> \/ \E i \in Axes : SquareOverflows(raw[i])
                      \/ AddOverflows(q1, q2)
                      \/ AddOverflows(s2, q3)]

\* mag = fix16_sqrt(magsq) << 8.
Mag(magsq) ==
    LET r == fix16_sqrt(magsq)
    IN  [value    |-> IF r >= 8388608 THEN (r - 16777216) * 256 ELSE r * 256,
         overflow |-> r >= 8388608]

\* Variant: the angle taken from the y component (C index 1).
TiltAngleOfY(norm) == (fix16_acos(fix16_abs(norm[2])) * 1800) \div fix16_pi

\* a = fix16_acos(fix16_abs(accel_normalized[2])) * 1800 / fix16_pi.
TiltAngle(norm) == (fix16_acos(fix16_abs(norm[3])) * 1800) \div fix16_pi

\* The normalisation loop: each component divided by mag.  A zero mag makes
\* every fix16_div a division by zero.
Normalized(raw, mag) ==
    IF mag = 0
      THEN {[i \in Axes |-> r] : r \in DivByZeroResults}
      ELSE {[i \in Axes |-> fix16_div(fix16_from_int(raw[i]), mag)]}

\* The arithmetic faults of one accepted sample.
Faults(f, magsq, mag) ==
    {"filter" : i \in {j \in Axes : f[j].overflow}}
    \cup {"from_int" : i \in {j \in Axes : FromIntOverflows(f[j].output)}}
    \cup (IF magsq.overflow THEN {"magsq"} ELSE {})
    \cup (IF mag.overflow THEN {"mag"} ELSE {})
    \cup (IF mag.value = 0 THEN {"div_by_zero"} ELSE {})

accel_handler(d) ==
    /\ running
    /\ data' = <<d>>
    /\ last_op' = "accel_handler"
    /\ IF ~Accepted(d)
         THEN /\ updated' = FALSE
              /\ faults' = {}
              /\ UNCHANGED <<filter_state, accel_raw, accel_normalized, angle_text>>
         ELSE \E f \in {[i \in Axes |->
                           filter(filter_state[i], ScaledSample(d)[i], filter_shift)]} :
              \E raw \in {[i \in Axes |-> f[i].output]} :
              \E magsq \in {MagSq(raw)} :
              \E mag \in {Mag(magsq.value)} :
              \E norm \in Normalized(raw, mag.value) :
                  /\ filter_state' = [i \in Axes |-> f[i].state]
                  /\ accel_raw' = raw
                  /\ accel_normalized' = norm
                  /\ angle_text' = TiltAngle(norm)
                  /\ updated' = TRUE
                  /\ faults' = Faults(f, magsq, mag)
    /\ UNCHANGED <<running, window_stack, filter_shift, subtitle, persist>>

\* ------------------------------------------------------------------------
\* Application lifecycle, menus and settings.

\* update_settings(): the subtitle of the "Filtering" item.
update_settings(shift) == FilterLevelName(shift)

\* persist_check_int(KEY_FILTER_SHIFT, &filter_shift): the stored value if
\* the key exists, else the variable's current value.
persist_check_int(store, value) ==
    IF store = {} THEN value ELSE CHOOSE v \in store : TRUE

\* init(): load the settings, push the display window (whose load handler
\* subscribes accel_handler), build the menus.
init ==
    /\ ~running
    /\ running' = TRUE
    /\ filter_shift' = persist_check_int(persist, filter_shift)
    /\ window_stack' = <<"display">>
    /\ subtitle' = update_settings(filter_shift')
    /\ last_op' = "init"
    /\ UNCHANGED <<filter_state, accel_normalized, accel_raw, angle_text,
                   persist, data, updated, faults, nsamples>>

\* The user leaves the app: app_event_loop() returns and main() runs deinit().
\* The program image is discarded, so the next launch starts from the static
\* initialisers; the persistent store survives.
deinit ==
    /\ running
    /\ running' = FALSE
    /\ window_stack' = <<>>
    /\ filter_shift' = DefaultFilterShift
    /\ filter_state' = Zero3
    /\ accel_normalized' = Zero3
    /\ accel_raw' = Zero3
    /\ angle_text' = NoText
    /\ subtitle' = ""
    /\ data' = <<>>
    /\ updated' = FALSE
    /\ faults' = {}
    /\ last_op' = "deinit"
    /\ UNCHANGED <<persist, nsamples>>

\* handle_select(): the Select button on the display window opens the menu.
handle_select ==
    /\ running
    /\ window_stack = <<"display">>
    /\ window_stack' = Append(window_stack, "main_menu")
    /\ last_op' = "handle_select"
    /\ UNCHANGED <<running, filter_shift, filter_state, accel_normalized,
                   accel_raw, angle_text, subtitle, persist, data, updated,
                   faults, nsamples>>

\* change_filter(): the "Filtering" item of the main menu opens the filter menu.
change_filter ==
    /\ running
    /\ window_stack = <<"display", "main_menu">>
    /\ window_stack' = Append(window_stack, "filter_menu")
    /\ last_op' = "change_filter"
    /\ UNCHANGED <<running, filter_shift, filter_state, accel_normalized,
                   accel_raw, angle_text, subtitle, persist, data, updated,
                   faults, nsamples>>

\* Variant: select_filter also clearing the filter history.
select_filter_resetting(index) ==
    /\ running
    /\ window_stack = <<"display", "main_menu", "filter_menu">>
    /\ filter_shift' = index
    /\ persist' = {index}
    /\ subtitle' = update_settings(index)
    /\ window_stack' = SubSeq(window_stack, 1, Len(window_stack) - 1)
    /\ filter_state' = Zero3
    /\ accel_normalized' = Zero3
    /\ last_op' = "select_filter"
    /\ UNCHANGED <<running, accel_raw, angle_text, data, updated, faults, nsamples>>

\* select_filter(index): an item of the filter menu was chosen.
select_filter(index) ==
    /\ running
    /\ window_stack = <<"display", "main_menu", "filter_menu">>
    /\ filter_shift' = index
    /\ persist' = {index}
    /\ subtitle' = update_settings(index)
    /\ window_stack' = SubSeq(window_stack, 1, Len(window_stack) - 1)
    /\ last_op' = "select_filter"
    /\ UNCHANGED <<running, filter_state, accel_normalized, accel_raw,
                   angle_text, data, updated, faults, nsamples>>

\* ------------------------------------------------------------------------
\* General specification: any interleaving of the handlers, with samples
\* drawn from a set that covers every branch of accel_handler.

AccelData(x, y, z, v) == [x |-> x, y |-> y, z |-> z, did_vibrate |-> v]

Samples ==
    { AccelData(0, 0, 1000, TRUE),        \* disturbed, otherwise normal
      AccelData(1500, -1500, 0, TRUE),    \* disturbed and too large
      AccelData(0, 0, 0, FALSE),          \* zero vector
      AccelData(0, 0, 1000, FALSE),       \* flat
      AccelData(1000, 0, 0, FALSE),       \* on edge
      AccelData(-600, 300, -900, FALSE),  \* tilted, face down
      AccelData(1199, -1199, 1199, FALSE),\* largest accepted magnitudes
      AccelData(1200, 0, 0, FALSE),       \* x at the threshold
      AccelData(0, -1500, 0, FALSE),      \* y too large
      AccelData(0, 0, 1201, FALSE) }      \* z too large

Deliver ==
    /\ nsamples < MaxSamples
    /\ \E d \in Samples : accel_handler(d)
    /\ nsamples' = nsamples + 1

SelectAny == \E index \in FilterMenuIndices : select_filter(index)

Next ==
    \/ init
    \/ deinit
    \/ handle_select
    \/ change_filter
    \/ SelectAny
    \/ Deliver

Spec == Init /\ [][Next]_vars

\* ------------------------------------------------------------------------
\* Resting-device specification: the watch lies still, so the sensor keeps
\* delivering the same sample; the user turns the watch or picks another
\* filter strength only once the display has settled.  Samples are
\* delivered without bound, so every filter runs to its steady state, and
\* each change starts from the accumulators the previous setting left.

\* Orientations the watch is held in.
HeldSamples ==
    { AccelData(0, 0, 1000, FALSE),
      AccelData(1199, 1199, 1199, FALSE),
      AccelData(-1199, -1199, -1199, FALSE) }

\* Each filter would return its input: state >> filter_shift = input.
AtRest ==
    /\ data # <<>>
    /\ \A i \in Axes :
          Shr(filter_state[i], filter_shift) = ScaledSample(data[1])[i]

Settled == data = <<>> \/ AtRest

\* The sensor delivers the sample it delivered last.
Hold ==
    /\ data # <<>>
    /\ accel_handler(data[1])
    /\ UNCHANGED nsamples

\* The watch is turned: the sensor delivers another sample.
Turn ==
    /\ Settled
    /\ \E d \in HeldSamples : accel_handler(d)
    /\ UNCHANGED nsamples

SelectSettled ==
    /\ Settled
    /\ \E index \in FilterMenuIndices : select_filter(index)

RestNext ==
    \/ init
    \/ handle_select
    \/ change_filter
    \/ SelectSettled
    \/ Turn
    \/ Hold

\* The accelerometer service keeps calling the subscribed handler.
RestSpec == Init /\ [][RestNext]_vars /\ WF_vars(init) /\ WF_vars(Hold)

\* ------------------------------------------------------------------------
\* End-to-end scenarios: a fresh install (filter strength 3, zero filter
\* state) is launched and one sample is fed to it again and again.

SampleFlat == AccelData(0, 0, 1000, FALSE)

SampleOnEdge == AccelData(1000, 0, 0, FALSE)

FirstFeed ==
    /\ data = <<>>
    /\ \E d \in {SampleFlat, SampleOnEdge} : accel_handler(d)
    /\ UNCHANGED nsamples

FeedNext ==
    \/ init
    \/ FirstFeed
    \/ Hold

FeedSpec == Init /\ [][FeedNext]_vars
                 /\ WF_vars(init) /\ WF_vars(FirstFeed) /\ WF_vars(Hold)

\* ------------------------------------------------------------------------
\* Properties.

\* A step of Spec in which accel_handler ran on the sample data'[1].
HandlerStep == last_op' = "accel_handler" /\ nsamples' = nsamples + 1

\* C1: a sample whose did_vibrate flag is set, whatever its x, y and z,
\* produces no update and leaves the three filter states, the normalised
\* vector and the displayed angle exactly as they were.
C1_DisturbedSampleIgnored ==
    [][(HandlerStep /\ data'[1].did_vibrate)
         => /\ updated' = FALSE
            /\ UNCHANGED <<filter_state, accel_normalized, angle_text>>]_vars

\* A disturbed sample was delivered after an accepted one: the filter
\* states and the vector the accepted sample produced are still there.
C1_Witness ==
    /\ last_op = "accel_handler"
    /\ data # <<>>
    /\ data[1].did_vibrate
    /\ ~updated
    /\ filter_state # Zero3
    /\ accel_normalized # Zero3

\* C2: a non-disturbed sample with an axis magnitude above the threshold is
\* rejected (no update, filter states and normalised vector unchanged); a
\* non-disturbed sample with every axis magnitude below the threshold is
\* accepted and applies the filter recurrence to each axis exactly once.
C2_ThresholdRejection ==
    [][HandlerStep =>
         LET d == data'[1]
         IN  /\ (~d.did_vibrate /\ \E i \in Axes : abs(Component(d, i)) > 1200)
                  => /\ updated' = FALSE
                     /\ UNCHANGED <<filter_state, accel_normalized>>
             /\ (~d.did_vibrate /\ \A i \in Axes : abs(Component(d, i)) < 1200)
                  => \A i \in Axes :
                           filter_state'[i] =
                               filter_state[i]
                               - (filter_state[i] \div (2^filter_shift))
                               + 16 * Component(d, i)]_vars

\* A sample too large on one axis only was rejected after an accepted one.
C2_Witness ==
    /\ last_op = "accel_handler"
    /\ data = <<AccelData(0, 0, 1201, FALSE)>>
    /\ ~updated
    /\ filter_state # Zero3

\* C3: an accepted sample whose filtered vector has magnitude zero is
\* skipped: no division by zero, no update, normalised vector kept.
C3_ZeroMagnitudeSkipped ==
    [][(HandlerStep /\ Accepted(data'[1]) /\ accel_raw' = Zero3)
         => /\ updated' = FALSE
            /\ "div_by_zero" \notin faults'
            /\ accel_normalized' = accel_normalized]_vars

\* C4: no filter accumulator update leaves the signed 32-bit range, for any
\* sequence of samples and filter-strength changes.
C4_AccumulatorsInRange ==
    /\ "filter" \notin faults
    /\ \A i \in Axes : filter_state[i] >= INT_MIN /\ filter_state[i] <= INT_MAX

\* The largest accepted input has been filtered to rest at the largest
\* strength, after a filter-strength change.
C4_Witness ==
    /\ last_op = "accel_handler"
    /\ persist = {4}
    /\ filter_shift = 4
    /\ AtRest
    /\ filter_state[1] >= 1199 * 16 * 16

C6_SelectFilterKeepsState ==
    [][last_op' = "select_filter"
         => UNCHANGED <<filter_state, accel_normalized>>]_vars

\* A strength was selected while the filters held history.
C6_Witness ==
    /\ last_op = "select_filter"
    /\ filter_shift # DefaultFilterShift
    /\ filter_state # Zero3
    /\ accel_normalized # Zero3

\* C7: with filter_shift = 0 an accepted sample makes every accumulator and
\* every filter output equal to the scaled input, whatever the accumulator
\* held before.
C7_ShiftZeroPassThrough ==
    [][(HandlerStep /\ updated' /\ filter_shift = 0)
         => \A i \in Axes :
               /\ filter_state'[i] = 16 * Component(data'[1], i)
               /\ accel_raw'[i] = 16 * Component(data'[1], i)]_vars

\* With strength 0, a sample replaced the different history of an earlier one.
C7_Witness ==
    /\ last_op = "accel_handler"
    /\ updated
    /\ filter_shift = 0
    /\ nsamples = 2
    /\ data = <<SampleOnEdge>>
    /\ filter_state = <<16000, 0, 0>>

\* C8: from the zero state with strength 3, feeding (0, 0, 1000) for ever
\* ends with the normalised vector at (0, 0, fix16_one) and the angle at 0;
\* feeding (1000, 0, 0) ends with normalised z at 0 and the angle at 900.
C8_EndToEnd ==
    <>[](/\ data # <<>>
         /\ filter_shift = 3
         /\ data[1] = SampleFlat
               => accel_normalized = <<0, 0, fix16_one>> /\ angle_text = 0
         /\ data[1] = SampleOnEdge
               => accel_normalized[3] = 0 /\ angle_text = 900)

\* The flat scenario has run until the z filter came to rest.
C8_Witness ==
    /\ data = <<SampleFlat>>
    /\ filter_state = <<0, 0, 128000>>
    /\ accel_raw = <<0, 0, 16000>>
    /\ accel_normalized = <<0, 0, fix16_one>>
    /\ angle_text = 0

\* C9: filter_shift is always within [0, 4], so it indexes the five preset
\* names; the persistent store only ever holds such a value.
C9_FilterShiftInRange ==
    /\ filter_shift \in 0..4
    /\ persist \subseteq 0..4
    /\ running => subtitle = STR_Filter_Level[filter_shift + 1]

\* The app was relaunched and loaded the strength stored by select_filter.
C9_Witness ==
    /\ running
    /\ last_op = "init"
    /\ persist = {4}
    /\ filter_shift = 4
    /\ subtitle = "Very Slow"

\* C10: for every accepted sample, the sum of the squared filtered
\* components and the conversion of each filtered component to fix16 stay
\* within signed 32 bits, also across filter-strength changes.
C10_NoWideOverflow ==
    /\ "magsq" \notin faults
    /\ "from_int" \notin faults

====
